---- MODULE Spec2Model ----
(***************************************************************************)
(* The n-ary Preference Tally (nnarySnowball) of gecko's snowball package  *)
(* together with the n-ary Confidence Counter (nnarySnowflake) it embeds.  *)
(* The snowball is translated from its Go source; the snowflake, whose     *)
(* source file is not part of the tree, is written from section 4.1 of the *)
(* specification.  The second half is the keystore service of api/keystore *)
(* with the requests of concurrent clients; the User, codec, formatting    *)
(* and database packages it calls are written from the way it uses them.   *)
(***************************************************************************)
EXTENDS Integers, Sequences, FiniteSets, TLC

\* ---------------------------------------------------------------- bounds

\* The choices (ids.ID values) a caller may name.
Choices == {"A", "B"}

\* The zero value of ids.ID, held by the fields of a struct not yet initialized.
Empty == "empty"

\* The outcome of a poll round that had no winner.
NoChoice == "none"

\* Largest beta an instance is initialized with.
MaxBeta == 3

\* Largest number of successful polls a tally accepts before the model stops
\* feeding it further ones.
MaxPolls == 5

\* Number of most recent polls the recorded call history keeps.
HistLen == MaxBeta + 1

VARIABLES
    sb,         \* the nnarySnowball struct, its snowflake field included
    args,       \* the arguments Initialize was called with
    history,    \* the outcomes of the most recent polls, oldest first
    dropped,    \* whether polls older than history have been forgotten
    streaked,   \* whether some choice ever won beta polls in a row
    lastAccepted, \* the choice of the latest successful poll made while not
                  \* finalized, the initial choice before any
    stable,     \* the choice every poll succeeds for once the outcome is
                \* stable, and the number of polls made since
    ks,         \* the Keystore struct: lock, users, userDB, bcDB
    clients,    \* each client's request in progress and latest reply
    created     \* per username, the user records stored so far

sbVars == <<sb, args, history, dropped, streaked, lastAccepted, stable>>

ksVars == <<ks, clients, created>>

vars == <<sb, args, history, dropped, streaked, lastAccepted, stable,
          ks, clients, created>>

\* ------------------------------------------------------- keystore values

\* The clients that send requests to the keystore concurrently.
Clients == {"c1", "c2"}

\* The usernames and passwords requests are made with.
Usernames == {"", "alice"}

Passwords == {"p1", "p2"}

\* The value of ks.lock while no request holds it.
NoOwner == "unlocked"

\* A Keystore struct before Keystore.Initialize.
ZeroKeystore ==
    [lock |-> NoOwner, users |-> <<>>, userDB |-> <<>>, bcDB |-> <<>>]

\* A client between requests that has sent none yet.
IdleClient ==
    [pc |-> "idle", op |-> "none", username |-> "", password |-> "",
     user |-> <<"text", "">>,
     reply |-> [err |-> "", success |-> FALSE, user |-> <<"text", "">>, db |-> <<>>]]

\* The keystore of a node whose tally is under study: never initialized.
KsIdle ==
    /\ ks = ZeroKeystore
    /\ clients = [cl \in Clients |-> IdleClient]
    /\ created = [u \in Usernames |-> 0]

\* ------------------------------------------------- map[[32]byte]int helpers

\* A Go map holding no key (make(map[[32]byte]int), or the nil map).
EmptyMap == [c \in {} |-> 0]

\* m[k] of a Go map: the zero value for a key that is absent.
MapGet(m, k) == IF k \in DOMAIN m THEN m[k] ELSE 0

\* m[k] = v of a Go map.
MapSet(m, k, v) == [x \in (DOMAIN m) \cup {k} |-> IF x = k THEN v ELSE m[x]]

\* ------------------------------------ Confidence Counter (nnarySnowflake)

\* The beta that applies to the counter's conflict nature.
sfApplicableBeta(sf) == IF sf.rogue THEN sf.betaRogue ELSE sf.betaVirtuous

sfInitialize(sf, betaVirtuous, betaRogue, choice) ==
    [sf EXCEPT !.betaVirtuous = betaVirtuous,
               !.betaRogue = betaRogue,
               !.confidence = 0,
               !.preference = choice,
               !.finalized = FALSE]

sfAdd(sf, choice) ==
    IF choice = sf.preference \/ choice \in sf.known
    THEN sf
    ELSE [sf EXCEPT !.known = sf.known \cup {choice}]

sfPreference(sf) == sf.preference

sfFinalized(sf) == sf.finalized

sfRecordSuccessfulPoll(sf, choice) ==
    IF sfFinalized(sf)
    THEN sf
    ELSE LET confidence == IF choice = sf.preference
                           THEN sf.confidence + 1
                           ELSE 1
         IN [sf EXCEPT !.preference = choice,
                       !.confidence = confidence,
                       !.finalized = (confidence >= sfApplicableBeta(sf))]

\* Mutant: no guard on a finalized counter, the flag kept equal to the
\* comparison of the confidence with beta.
sfRecordUnsuccessfulPoll_Unguarded(sf) ==
    [sf EXCEPT !.confidence = 0, !.finalized = (0 >= sfApplicableBeta(sf))]

sfRecordUnsuccessfulPoll(sf) ==
    IF sfFinalized(sf)
    THEN sf
    ELSE [sf EXCEPT !.confidence = 0]

\* --------------------------------------- Preference Tally (nnarySnowball)

\* Mutant: the two betas handed to the snowflake in the wrong order.
Initialize_BetasSwapped(s, betaVirtuous, betaRogue, choice) ==
    [s EXCEPT !.preference = choice,
              !.numSuccessfulPolls = EmptyMap,
              !.snowflake = sfInitialize(s.snowflake, betaRogue, betaVirtuous, choice)]

\* Mutant: betaRogue handed to the snowflake as both thresholds.
Initialize_RogueBetaOnly(s, betaVirtuous, betaRogue, choice) ==
    [s EXCEPT !.preference = choice,
              !.numSuccessfulPolls = EmptyMap,
              !.snowflake = sfInitialize(s.snowflake, betaRogue, betaRogue, choice)]

Initialize(s, betaVirtuous, betaRogue, choice) ==
    [s EXCEPT !.preference = choice,
              !.numSuccessfulPolls = EmptyMap,
              !.snowflake = sfInitialize(s.snowflake, betaVirtuous, betaRogue, choice)]

\* Mutant: the choice added handed to the snowflake as a successful poll.
Add_AsPoll(s, choice) ==
    [s EXCEPT !.snowflake = sfRecordSuccessfulPoll(s.snowflake, choice)]

Add(s, choice) == [s EXCEPT !.snowflake = sfAdd(s.snowflake, choice)]

Finalized(s) == sfFinalized(s.snowflake)

\* Mutant: the tracked preference returned whether or not finalized.
Preference_Tracked(s) == s.preference

\* Mutant: the test of Finalized inverted.
Preference_Inverted(s) ==
    IF Finalized(s)
    THEN s.preference
    ELSE sfPreference(s.snowflake)

Preference(s) ==
    IF Finalized(s)
    THEN sfPreference(s.snowflake)
    ELSE s.preference

\* Mutant: line 64 missing, the preference switched but the maximum kept.
RecordSuccessfulPoll_StaleMax(s, choice) ==
    IF Finalized(s)
    THEN s
    ELSE LET numSuccessfulPolls == MapGet(s.numSuccessfulPolls, choice) + 1
             counted == [s EXCEPT !.numSuccessfulPolls =
                                      MapSet(s.numSuccessfulPolls, choice, numSuccessfulPolls)]
             switched == IF numSuccessfulPolls > s.maxSuccessfulPolls
                         THEN [counted EXCEPT !.preference = choice]
                         ELSE counted
         IN [switched EXCEPT !.snowflake = sfRecordSuccessfulPoll(s.snowflake, choice)]

\* Mutant: >= for > on line 62, the preference switched on a tie.
RecordSuccessfulPoll_EagerTie(s, choice) ==
    IF Finalized(s)
    THEN s
    ELSE LET numSuccessfulPolls == MapGet(s.numSuccessfulPolls, choice) + 1
             counted == [s EXCEPT !.numSuccessfulPolls =
                                      MapSet(s.numSuccessfulPolls, choice, numSuccessfulPolls)]
             switched == IF numSuccessfulPolls >= s.maxSuccessfulPolls
                         THEN [counted EXCEPT !.preference = choice,
                                              !.maxSuccessfulPolls = numSuccessfulPolls]
                         ELSE counted
         IN [switched EXCEPT !.snowflake = sfRecordSuccessfulPoll(s.snowflake, choice)]

\* Mutant: line 67 moved into the if of line 62, the poll forwarded to the
\* snowflake only when the preference switched.
RecordSuccessfulPoll_ForwardOnSwitch(s, choice) ==
    IF Finalized(s)
    THEN s
    ELSE LET numSuccessfulPolls == MapGet(s.numSuccessfulPolls, choice) + 1
             counted == [s EXCEPT !.numSuccessfulPolls =
                                      MapSet(s.numSuccessfulPolls, choice, numSuccessfulPolls)]
         IN IF numSuccessfulPolls > s.maxSuccessfulPolls
            THEN [counted EXCEPT !.preference = choice,
                                 !.maxSuccessfulPolls = numSuccessfulPolls,
                                 !.snowflake = sfRecordSuccessfulPoll(s.snowflake, choice)]
            ELSE counted

\* Mutant: sb.preference for choice on line 67, the snowflake told the
\* tally's preference instead of the choice polled.
RecordSuccessfulPoll_ForwardPreference(s, choice) ==
    IF Finalized(s)
    THEN s
    ELSE LET numSuccessfulPolls == MapGet(s.numSuccessfulPolls, choice) + 1
             counted == [s EXCEPT !.numSuccessfulPolls =
                                      MapSet(s.numSuccessfulPolls, choice, numSuccessfulPolls)]
             switched == IF numSuccessfulPolls > s.maxSuccessfulPolls
                         THEN [counted EXCEPT !.preference = choice,
                                              !.maxSuccessfulPolls = numSuccessfulPolls]
                         ELSE counted
         IN [switched EXCEPT !.snowflake =
                                 sfRecordSuccessfulPoll(s.snowflake, switched.preference)]

\* Mutant: lines 54-56 missing, a poll counted on a finalized tally too.
RecordSuccessfulPoll_NoGuard(s, choice) ==
    LET numSuccessfulPolls == MapGet(s.numSuccessfulPolls, choice) + 1
        counted == [s EXCEPT !.numSuccessfulPolls =
                                 MapSet(s.numSuccessfulPolls, choice, numSuccessfulPolls)]
        switched == IF numSuccessfulPolls > s.maxSuccessfulPolls
                    THEN [counted EXCEPT !.preference = choice,
                                         !.maxSuccessfulPolls = numSuccessfulPolls]
                    ELSE counted
    IN [switched EXCEPT !.snowflake = sfRecordSuccessfulPoll(s.snowflake, choice)]

\* Mutant: line 67 moved before line 54, the poll that finalizes the snowflake
\* not counted.
RecordSuccessfulPoll_ForwardFirst(s, choice) ==
    LET forwarded == [s EXCEPT !.snowflake = sfRecordSuccessfulPoll(s.snowflake, choice)]
        numSuccessfulPolls == MapGet(s.numSuccessfulPolls, choice) + 1
        counted == [forwarded EXCEPT !.numSuccessfulPolls =
                                 MapSet(s.numSuccessfulPolls, choice, numSuccessfulPolls)]
    IN IF Finalized(forwarded)
       THEN forwarded
       ELSE IF numSuccessfulPolls > s.maxSuccessfulPolls
            THEN [counted EXCEPT !.preference = choice,
                                 !.maxSuccessfulPolls = numSuccessfulPolls]
            ELSE counted

RecordSuccessfulPoll(s, choice) ==
    IF Finalized(s)
    THEN s
    ELSE LET numSuccessfulPolls == MapGet(s.numSuccessfulPolls, choice) + 1
             counted == [s EXCEPT !.numSuccessfulPolls =
                                      MapSet(s.numSuccessfulPolls, choice, numSuccessfulPolls)]
             switched == IF numSuccessfulPolls > s.maxSuccessfulPolls
                         THEN [counted EXCEPT !.preference = choice,
                                              !.maxSuccessfulPolls = numSuccessfulPolls]
                         ELSE counted
         IN [switched EXCEPT !.snowflake = sfRecordSuccessfulPoll(s.snowflake, choice)]

\* Mutant: the unsuccessful poll not forwarded to the snowflake.
RecordUnsuccessfulPoll_NotForwarded(s) == s

\* Mutant: the tally's preference set to the snowflake's on a miss.
RecordUnsuccessfulPoll_SyncPreference(s) ==
    [s EXCEPT !.snowflake = sfRecordUnsuccessfulPoll(s.snowflake),
              !.preference = sfPreference(s.snowflake)]

RecordUnsuccessfulPoll(s) ==
    [s EXCEPT !.snowflake = sfRecordUnsuccessfulPoll(s.snowflake)]

\* ------------------------------------------------------------ the caller

\* A snowflake struct before Initialize: Go's zero value, with the conflict
\* nature the caller fixed for the instance.
ZeroSnowflake(rogue) ==
    [betaVirtuous |-> 0, betaRogue |-> 0, confidence |-> 0, preference |-> Empty,
     finalized |-> FALSE, rogue |-> rogue, known |-> {}]

\* A snowball struct before Initialize.
ZeroSnowball(rogue) ==
    [preference |-> Empty, maxSuccessfulPolls |-> 0, numSuccessfulPolls |-> EmptyMap,
     snowflake |-> ZeroSnowflake(rogue)]

\* The successful polls the tally has accepted so far.
RECURSIVE SumOver(_, _)
SumOver(m, keys) ==
    IF keys = {} THEN 0
    ELSE LET k == CHOOSE x \in keys : TRUE
         IN m[k] + SumOver(m, keys \ {k})

TotalPolls(s) == SumOver(s.numSuccessfulPolls, DOMAIN s.numSuccessfulPolls)

\* The history after one more poll with the given outcome.
Record(h, outcome) ==
    IF Len(h) < HistLen THEN Append(h, outcome) ELSE Append(Tail(h), outcome)

\* The beta that applies to the instance by the arguments of Initialize and the
\* nature the caller fixed for it.
ArgBeta == IF args.rogue THEN args.betaRogue ELSE args.betaVirtuous

\* The last n polls of h all had the outcome c.
EndsWithRun(h, c, n) ==
    /\ Len(h) >= n
    /\ \A i \in (Len(h) - n + 1)..Len(h) : h[i] = c

Init ==
    \E betaVirtuous \in 1..MaxBeta, betaRogue \in 1..MaxBeta,
       choice \in Choices, rogue \in BOOLEAN :
        /\ sb = Initialize(ZeroSnowball(rogue), betaVirtuous, betaRogue, choice)
        /\ args = [betaVirtuous |-> betaVirtuous, betaRogue |-> betaRogue,
                   choice |-> choice, rogue |-> rogue]
        /\ history = <<>>
        /\ dropped = FALSE
        /\ streaked = FALSE
        /\ lastAccepted = choice
        /\ stable = [choice |-> NoChoice, polls |-> 0]
        /\ KsIdle

CallAdd(choice) ==
    /\ sb' = Add(sb, choice)
    /\ UNCHANGED <<args, history, dropped, streaked, lastAccepted, stable>>
    /\ UNCHANGED ksVars

CallRecordSuccessfulPoll(choice) ==
    /\ Finalized(sb) \/ TotalPolls(sb) < MaxPolls
    /\ sb' = RecordSuccessfulPoll(sb, choice)
    /\ history' = Record(history, choice)
    /\ dropped' = (dropped \/ Len(history) = HistLen)
    /\ streaked' = (streaked \/ EndsWithRun(history', choice, ArgBeta))
    /\ lastAccepted' = (IF Finalized(sb) THEN lastAccepted ELSE choice)
    /\ UNCHANGED <<args, stable>>
    /\ UNCHANGED ksVars

CallRecordUnsuccessfulPoll ==
    /\ sb' = RecordUnsuccessfulPoll(sb)
    /\ history' = Record(history, NoChoice)
    /\ dropped' = (dropped \/ Len(history) = HistLen)
    /\ UNCHANGED <<args, streaked, lastAccepted, stable>>
    /\ UNCHANGED ksVars

Next ==
    \/ \E choice \in Choices : CallAdd(choice)
    \/ \E choice \in Choices : CallRecordSuccessfulPoll(choice)
    \/ CallRecordUnsuccessfulPoll

Spec == Init /\ [][Next]_vars

\* Initialize called again on an instance already in use.
CallInitialize(betaVirtuous, betaRogue, choice) ==
    /\ sb' = Initialize(sb, betaVirtuous, betaRogue, choice)
    /\ args' = [args EXCEPT !.betaVirtuous = betaVirtuous,
                            !.betaRogue = betaRogue,
                            !.choice = choice]
    /\ history' = <<>>
    /\ dropped' = FALSE
    /\ streaked' = FALSE
    /\ lastAccepted' = choice
    /\ UNCHANGED stable
    /\ UNCHANGED ksVars

NextReinit ==
    \/ Next
    \/ \E betaVirtuous \in 1..MaxBeta, betaRogue \in 1..MaxBeta, choice \in Choices :
          CallInitialize(betaVirtuous, betaRogue, choice)

\* The instance with Initialize among the calls a caller makes at any time.
SpecReinit == Init /\ [][NextReinit]_vars

\* The network's outcome becomes stable: from here on every poll is a
\* successful poll for the one choice.
EnterStable(choice) ==
    /\ stable.choice = NoChoice
    /\ ~Finalized(sb)
    /\ stable' = [choice |-> choice, polls |-> 0]
    /\ UNCHANGED <<sb, args, history, dropped, streaked, lastAccepted>>
    /\ UNCHANGED ksVars

\* A poll under a stable outcome.
StablePoll ==
    /\ stable.choice # NoChoice
    /\ sb' = RecordSuccessfulPoll(sb, stable.choice)
    /\ history' = Record(history, stable.choice)
    /\ dropped' = (dropped \/ Len(history) = HistLen)
    /\ streaked' = (streaked \/ EndsWithRun(history', stable.choice, ArgBeta))
    /\ lastAccepted' = (IF Finalized(sb) THEN lastAccepted ELSE stable.choice)
    /\ stable' = [stable EXCEPT !.polls = IF @ < MaxBeta THEN @ + 1 ELSE @]
    /\ UNCHANGED args
    /\ UNCHANGED ksVars

\* Add under a stable outcome.
StableAdd(choice) ==
    /\ stable.choice # NoChoice
    /\ CallAdd(choice)

\* The calls made before the outcome is stable.
Unstable ==
    /\ stable.choice = NoChoice
    /\ Next

NextStable ==
    \/ Unstable
    \/ \E choice \in Choices : EnterStable(choice)
    \/ StablePoll
    \/ \E choice \in Choices : StableAdd(choice)

\* The instance polled by a caller that keeps polling: an outcome that has
\* become stable is polled again and again.
SpecStable == Init /\ [][NextStable]_vars /\ WF_vars(StablePoll)

\* --------------------------------------------------------------- keystore

\* The error values a handler returns; NoError is Go's nil.
NoError == ""
ErrEmptyUsername == "username can't be the empty string"
ErrUserExists == "user already exists"
ErrIncorrectPassword == "incorrect password"
ErrNotFound == "not found"
ErrBadString == "invalid cb58 string"
ErrBadBytes == "could not unmarshal"
ErrDatabase == "database error"

\* The value of a reply field the handler did not set.
NoBlob == <<"text", "">>
NoDB == <<>>
NilUser == [password |-> "nil"]

\* User.Initialize(password): the user that checks against this password.
UserInitialize(password) == [password |-> password]

\* User.CheckPassword(password).
CheckPassword(usr, password) == usr.password = password

\* codec.Marshal, and codec.Unmarshal into a value of the given kind.
Marshal(kind, v) == <<"codec", kind, v>>

Unmarshal(kind, bytes, zero) ==
    IF bytes[1] = "codec" /\ bytes[2] = kind
    THEN [err |-> NoError, value |-> bytes[3]]
    ELSE [err |-> ErrBadBytes, value |-> zero]

\* formatting.CB58: String() of bytes, and FromString.
CB58String(bytes) == <<"cb58", bytes>>

CB58FromString(str) ==
    IF str[1] = "cb58"
    THEN [err |-> NoError, bytes |-> str[2]]
    ELSE [err |-> ErrBadString, bytes |-> <<"raw">>]

\* A Go map or a database with one more entry.
Put(m, k, v) == [x \in (DOMAIN m) \cup {k} |-> IF x = k THEN v ELSE m[x]]

\* The key/value pairs stored under prefixdb.New(username, bcDB).
UserData(k, username) ==
    IF username \in DOMAIN k.bcDB THEN k.bcDB[username] ELSE {}

\* Keystore.getUser.
getUser(k, username) ==
    IF username \in DOMAIN k.users
    THEN [usr |-> k.users[username], nil |-> FALSE, err |-> NoError]
    ELSE IF username \notin DOMAIN k.userDB
         THEN [usr |-> NilUser, nil |-> TRUE, err |-> ErrNotFound]
         ELSE LET u == Unmarshal("User", k.userDB[username], NilUser)
              IN [usr |-> u.value, nil |-> FALSE, err |-> u.err]

\* The reply of a handler that returns the error before setting anything.
Failure(err) == [err |-> err, success |-> FALSE, user |-> NoBlob, db |-> NoDB]

\* ks.lock.Lock() returns: no other request holds the mutex.
CanLock(k) == k.lock = NoOwner

\* Lines 119-124 of CreateUser: the error it returns before writing, or NoError.
CreateUserCheck(k, username) ==
    IF username = ""
    THEN ErrEmptyUsername
    ELSE LET got == getUser(k, username)
         IN IF got.err = NoError \/ ~got.nil THEN ErrUserExists ELSE NoError

\* Lines 126-141 of CreateUser: the keystore after them.
CreateUserWrite(k, username, password) ==
    LET usr == UserInitialize(password)
    IN [k EXCEPT !.userDB = Put(k.userDB, username, Marshal("User", usr)),
                 !.users = Put(k.users, username, usr)]

\* Lines 241-253 of ImportUser: the error it returns before writing, or NoError.
ImportUserCheck(k, username, user) ==
    LET got == getUser(k, username)
        cb58 == CB58FromString(user)
        userData == Unmarshal("UserDB", cb58.bytes, [User |-> NilUser, Data |-> {}])
    IN IF got.err = NoError \/ ~got.nil THEN ErrUserExists
       ELSE IF cb58.err # NoError THEN cb58.err
       ELSE userData.err

\* Lines 255-265 of ImportUser: the keystore with the user record stored.
ImportUserPut(k, username, user) ==
    LET userData == Unmarshal("UserDB", CB58FromString(user).bytes,
                              [User |-> NilUser, Data |-> {}]).value
    IN [k EXCEPT !.userDB = Put(k.userDB, username, Marshal("User", userData.User)),
                 !.users = Put(k.users, username, userData.User)]

\* Lines 267-275 of ImportUser: the keystore with the batch of data written.
ImportUserBatch(k, username, user) ==
    LET userData == Unmarshal("UserDB", CB58FromString(user).bytes,
                              [User |-> NilUser, Data |-> {}]).value
    IN [k EXCEPT !.bcDB = Put(k.bcDB, username, UserData(k, username) \cup userData.Data)]

\* Mutant: lines 191-193 missing, the user exported to whoever names it.
ExportUser_NoPasswordCheck(k, username, password) ==
    LET got == getUser(k, username)
    IN IF got.err # NoError THEN Failure(got.err)
       ELSE [err |-> NoError, success |-> FALSE, db |-> NoDB,
             user |-> CB58String(Marshal("UserDB",
                         [User |-> got.usr, Data |-> UserData(k, username)]))]

\* ExportUser: its reply.
ExportUser(k, username, password) ==
    LET got == getUser(k, username)
    IN IF got.err # NoError THEN Failure(got.err)
       ELSE IF ~CheckPassword(got.usr, password) THEN Failure(ErrIncorrectPassword)
       ELSE [err |-> NoError, success |-> FALSE, db |-> NoDB,
             user |-> CB58String(Marshal("UserDB",
                         [User |-> got.usr, Data |-> UserData(k, username)]))]

\* GetDatabase: the error and the database it returns, the encrypted database
\* named by the user it belongs to and the password that keys it.
GetDatabase(k, username, password) ==
    LET got == getUser(k, username)
    IN IF got.err # NoError THEN Failure(got.err)
       ELSE IF ~CheckPassword(got.usr, password) THEN Failure(ErrIncorrectPassword)
       ELSE [err |-> NoError, success |-> FALSE, user |-> NoBlob,
             db |-> <<username, password>>]

\* The serialized users a client may hand to ImportUser: text that is not
\* CB58, CB58 of bytes that are no UserDB, and what ExportUser produces.
Exported(password, data) ==
    CB58String(Marshal("UserDB", [User |-> UserInitialize(password), Data |-> data]))

ImportStrings ==
    {<<"text", "garbage">>, CB58String(<<"raw">>),
     Exported("p1", {}), Exported("p2", {"kv"})}

\* The databases a keystore may be initialized on: an empty one, or one a
\* previous run left a user and its data in.
InitialDatabases ==
    {[userDB |-> <<>>, bcDB |-> <<>>],
     [userDB |-> Put(<<>>, "alice", Marshal("User", UserInitialize("p1"))),
      bcDB |-> Put(<<>>, "alice", {"kv"})]}

\* Keystore.Initialize on a database, before any request.
InitKeystore ==
    /\ \E db \in InitialDatabases :
         /\ ks = [ZeroKeystore EXCEPT !.userDB = db.userDB, !.bcDB = db.bcDB]
         /\ created = [u \in Usernames |-> IF u \in DOMAIN db.userDB THEN 1 ELSE 0]
    /\ clients = [cl \in Clients |-> IdleClient]
    /\ sb = ZeroSnowball(FALSE)
    /\ args = [betaVirtuous |-> 0, betaRogue |-> 0, choice |-> Empty, rogue |-> FALSE]
    /\ history = <<>>
    /\ dropped = FALSE
    /\ streaked = FALSE
    /\ lastAccepted = Empty
    /\ stable = [choice |-> NoChoice, polls |-> 0]

\* A client sends a request.
Call(cl, op, username, password, user) ==
    /\ clients[cl].pc = "idle"
    /\ clients' = [clients EXCEPT ![cl] =
                      [pc |-> "waiting", op |-> op, username |-> username,
                       password |-> password, user |-> user,
                       reply |-> IdleClient.reply]]
    /\ UNCHANGED <<ks, created>>
    /\ UNCHANGED sbVars

\* ks.lock.Lock() of the request's handler.
Lock(cl) ==
    /\ clients[cl].pc = "waiting"
    /\ CanLock(ks)
    /\ ks' = [ks EXCEPT !.lock = cl]
    /\ clients' = [clients EXCEPT ![cl].pc = "locked"]
    /\ UNCHANGED created
    /\ UNCHANGED sbVars

\* The handler returns: the deferred Unlock runs, the client is left with the
\* reply and the arguments are gone.
Return(cl, k, reply) ==
    /\ ks' = [k EXCEPT !.lock = NoOwner]
    /\ clients' = [clients EXCEPT ![cl] =
                      [IdleClient EXCEPT !.op = clients[cl].op, !.reply = reply]]

\* CreateUser up to the test of getUser.
DoCreateUserCheck(cl) ==
    LET c == clients[cl]
        err == CreateUserCheck(ks, c.username)
    IN /\ c.pc = "locked"
       /\ c.op = "CreateUser"
       /\ IF err # NoError
          THEN Return(cl, ks, Failure(err))
          ELSE /\ clients' = [clients EXCEPT ![cl].pc = "checked"]
               /\ UNCHANGED ks
       /\ UNCHANGED created
       /\ UNCHANGED sbVars

\* CreateUser from User.Initialize on; userDB.Put may fail.
DoCreateUserWrite(cl) ==
    LET c == clients[cl]
    IN /\ c.pc = "checked"
       /\ c.op = "CreateUser"
       /\ \E putOK \in BOOLEAN :
            IF putOK
            THEN /\ Return(cl, CreateUserWrite(ks, c.username, c.password),
                           [Failure(NoError) EXCEPT !.success = TRUE])
                 /\ created' = [created EXCEPT ![c.username] = @ + 1]
            ELSE /\ Return(cl, ks, Failure(ErrDatabase))
                 /\ UNCHANGED created
       /\ UNCHANGED sbVars

\* ImportUser up to the decoding of the serialized user.
DoImportUserCheck(cl) ==
    LET c == clients[cl]
        err == ImportUserCheck(ks, c.username, c.user)
    IN /\ c.pc = "locked"
       /\ c.op = "ImportUser"
       /\ IF err # NoError
          THEN Return(cl, ks, Failure(err))
          ELSE /\ clients' = [clients EXCEPT ![cl].pc = "checked"]
               /\ UNCHANGED ks
       /\ UNCHANGED created
       /\ UNCHANGED sbVars

\* ImportUser from the Marshal of the user on; userDB.Put and batch.Write
\* may fail.
DoImportUserWrite(cl) ==
    LET c == clients[cl]
        stored == ImportUserPut(ks, c.username, c.user)
    IN /\ c.pc = "checked"
       /\ c.op = "ImportUser"
       /\ \E putOK, batchOK \in BOOLEAN :
            IF ~putOK
            THEN /\ Return(cl, ks, Failure(ErrDatabase))
                 /\ UNCHANGED created
            ELSE /\ created' = [created EXCEPT ![c.username] = @ + 1]
                 /\ IF batchOK
                    THEN Return(cl, ImportUserBatch(stored, c.username, c.user),
                                [Failure(NoError) EXCEPT !.success = TRUE])
                    ELSE Return(cl, stored,
                                [Failure(ErrDatabase) EXCEPT !.success = TRUE])
       /\ UNCHANGED sbVars

\* ExportUser, whole.
DoExportUser(cl) ==
    LET c == clients[cl]
    IN /\ c.pc = "locked"
       /\ c.op = "ExportUser"
       /\ Return(cl, ks, ExportUser(ks, c.username, c.password))
       /\ UNCHANGED created
       /\ UNCHANGED sbVars

\* GetDatabase, whole.
DoGetDatabase(cl) ==
    LET c == clients[cl]
    IN /\ c.pc = "locked"
       /\ c.op = "GetDatabase"
       /\ Return(cl, ks, GetDatabase(ks, c.username, c.password))
       /\ UNCHANGED created
       /\ UNCHANGED sbVars

NextKeystore ==
    \/ \E cl \in Clients, op \in {"CreateUser", "ExportUser", "GetDatabase"},
          username \in Usernames, password \in Passwords :
          Call(cl, op, username, password, NoBlob)
    \/ \E cl \in Clients, username \in Usernames, password \in Passwords,
          user \in ImportStrings :
          Call(cl, "ImportUser", username, password, user)
    \/ \E cl \in Clients : Lock(cl)
    \/ \E cl \in Clients : DoCreateUserCheck(cl)
    \/ \E cl \in Clients : DoCreateUserWrite(cl)
    \/ \E cl \in Clients : DoImportUserCheck(cl)
    \/ \E cl \in Clients : DoImportUserWrite(cl)
    \/ \E cl \in Clients : DoExportUser(cl)
    \/ \E cl \in Clients : DoGetDatabase(cl)

\* The keystore serving the requests of its clients.
SpecKeystore == InitKeystore /\ [][NextKeystore]_vars

\* ------------------------------------------------------------ properties

\* The cumulative total recorded for a choice.
Total(s, c) == MapGet(s.numSuccessfulPolls, c)

\* The most recent poll outcome.
LastOutcome == history[Len(history)]

\* C1. Monotonic finality: once Finalized() has returned true, no call of Add,
\* RecordSuccessfulPoll or RecordUnsuccessfulPoll changes the value of
\* Preference() or makes Finalized() return false.
C1_MonotonicFinality ==
    [][Finalized(sb) => (Finalized(sb') /\ Preference(sb') = Preference(sb))]_vars

\* A finalized instance whose most recent poll was not a success of the choice
\* it finalized on: a mutator has run since it finalized.
C1_Witness ==
    /\ Finalized(sb)
    /\ Len(history) > 0
    /\ LastOutcome # Preference(sb)

\* C2. Tally invariant: the total of the tracked preference equals
\* maxSuccessfulPolls, which is the largest total of any choice (0 when no poll
\* has been recorded).
C2_TallyInvariant ==
    /\ Total(sb, sb.preference) = sb.maxSuccessfulPolls
    /\ \A c \in Choices : Total(sb, c) <= sb.maxSuccessfulPolls
    /\ \/ \E c \in Choices : Total(sb, c) = sb.maxSuccessfulPolls
       \/ sb.maxSuccessfulPolls = 0

\* The preference has moved off the initial choice and both choices have polls.
C2_Witness ==
    /\ sb.preference # args.choice
    /\ sb.maxSuccessfulPolls >= 2
    /\ Total(sb, args.choice) >= 1

\* C3. Lazy tie-break: on a tally that is not finalized RecordSuccessfulPoll(c)
\* adds 1 to the total of c and makes c the preference, with its total the new
\* maximum, exactly when that total exceeds maxSuccessfulPolls; otherwise
\* preference and maximum stay as they were.
C3_LazyTieBreak ==
    [][\A c \in Choices :
          (CallRecordSuccessfulPoll(c) /\ ~Finalized(sb)) =>
              /\ Total(sb', c) = Total(sb, c) + 1
              /\ IF Total(sb, c) + 1 > sb.maxSuccessfulPolls
                 THEN /\ sb'.preference = c
                      /\ sb'.maxSuccessfulPolls = Total(sb, c) + 1
                 ELSE /\ sb'.preference = sb.preference
                      /\ sb'.maxSuccessfulPolls = sb.maxSuccessfulPolls]_vars

\* The example of the specification: initial choice A, polls A, B, B.
C3_Witness ==
    /\ args.choice = "A"
    /\ ~dropped
    /\ history = <<"A", "B", "B">>
    /\ ~Finalized(sb)
    /\ sb.preference = "B"

\* C4. Preference() is the snowflake's choice in every finalized state and the
\* tally's tracked preference in every other state.
C4_PreferenceSource ==
    /\ sb.snowflake.finalized => Preference(sb) = sb.snowflake.preference
    /\ ~sb.snowflake.finalized => Preference(sb) = sb.preference

\* Not finalized, and the streak is being built for a choice that is not the
\* cumulative leader.
C4_Witness ==
    /\ ~sb.snowflake.finalized
    /\ sb.snowflake.preference # sb.preference
    /\ sb.snowflake.confidence >= 1

\* C5. Divergence resolved for the streak: whenever the instance is finalized
\* on a choice that another choice beats in cumulative total, the tracked
\* preference is that other leader and Preference() is the finalized choice.
C5_StreakWins ==
    (/\ Finalized(sb)
     /\ \E b \in Choices : Total(sb, b) > Total(sb, sb.snowflake.preference))
    => /\ sb.preference # sb.snowflake.preference
       /\ Total(sb, sb.preference) > Total(sb, sb.snowflake.preference)
       /\ Preference(sb) = sb.snowflake.preference
       /\ Preference(sb) # sb.preference

\* Finalized on A while B has the strictly higher cumulative total.
C5_Witness ==
    /\ Finalized(sb)
    /\ sb.snowflake.preference = "A"
    /\ sb.preference = "B"
    /\ Total(sb, "B") > Total(sb, "A")

\* C6. Counter invariant: finalized exactly when the confidence has reached
\* the beta that applies to the nature of the instance, after every call.
C6_FinalizedIffBeta ==
    Finalized(sb) <=> (sb.snowflake.confidence >= ArgBeta)

\* Finalized, with an unsuccessful poll recorded since.
C6_Witness ==
    /\ Finalized(sb)
    /\ args.betaVirtuous # args.betaRogue
    /\ Len(history) > 0
    /\ LastOutcome = NoChoice

\* C7. Streak-based finality: the call that finalizes the instance is a
\* successful poll for the choice finalized on and the last of at least beta
\* successive successful polls for it; an instance none of whose choices ever
\* won beta polls in a row is not finalized.
C7_StreakFinality ==
    /\ [][(~Finalized(sb) /\ Finalized(sb')) =>
             EndsWithRun(history', sb'.snowflake.preference, ArgBeta)]_vars
    /\ [](Finalized(sb) => streaked)

\* Not finalized although one choice has a cumulative total above beta.
C7_Witness ==
    /\ ~Finalized(sb)
    /\ ~streaked
    /\ sb.maxSuccessfulPolls > ArgBeta
    /\ ArgBeta >= 2

\* C8. Virtuous threshold: a fresh virtuous instance with betaVirtuous below
\* betaRogue is finalized after k successive successful polls for one choice
\* exactly when k >= betaVirtuous.
C8_VirtuousThreshold ==
    \A c \in Choices :
        (/\ ~args.rogue
         /\ args.betaVirtuous < args.betaRogue
         /\ ~dropped
         /\ EndsWithRun(history, c, Len(history)))
        => (Finalized(sb) <=> Len(history) >= args.betaVirtuous)

\* A virtuous instance finalized by betaVirtuous polls, fewer than betaRogue.
C8_Witness ==
    /\ ~args.rogue
    /\ ~dropped
    /\ Len(history) = args.betaVirtuous
    /\ Len(history) >= 2
    /\ Len(history) < args.betaRogue
    /\ EndsWithRun(history, "B", Len(history))
    /\ Finalized(sb)

\* C9. Streak reset on switch: on a counter that is not finalized, with choice
\* A and confidence k < beta, a successful poll for another choice B leaves
\* choice B and confidence 1; one for A leaves choice A and confidence k + 1.
C9_ResetOnSwitch ==
    [][\A c \in Choices :
          (/\ CallRecordSuccessfulPoll(c)
           /\ ~sb.snowflake.finalized
           /\ sb.snowflake.confidence < ArgBeta) =>
              IF c # sb.snowflake.preference
              THEN /\ sb'.snowflake.preference = c
                   /\ sb'.snowflake.confidence = 1
              ELSE /\ sb'.snowflake.preference = c
                   /\ sb'.snowflake.confidence = sb.snowflake.confidence + 1]_vars

\* A streak of two for one choice followed by a poll for the other.
C9_Witness ==
    /\ Len(history) >= 3
    /\ \E a, b \in Choices :
        /\ a # b
        /\ history[Len(history) - 2] = a
        /\ history[Len(history) - 1] = a
        /\ history[Len(history)] = b
        /\ sb.snowflake.preference = b
    /\ sb.snowflake.confidence = 1
    /\ ~sb.snowflake.finalized

\* C10. Streak reset on miss: RecordUnsuccessfulPoll on a counter that is not
\* finalized leaves confidence 0 and the choice as it was; on a finalized one
\* confidence, choice and finalized flag all keep their values.
C10_ResetOnMiss ==
    [][CallRecordUnsuccessfulPoll =>
          IF sb.snowflake.finalized
          THEN /\ sb'.snowflake.confidence = sb.snowflake.confidence
               /\ sb'.snowflake.preference = sb.snowflake.preference
               /\ sb'.snowflake.finalized
          ELSE /\ sb'.snowflake.confidence = 0
               /\ sb'.snowflake.preference = sb.snowflake.preference]_vars

\* A streak of two lost to an unsuccessful poll.
C10_Witness ==
    /\ Len(history) >= 3
    /\ history[Len(history) - 2] = sb.snowflake.preference
    /\ history[Len(history) - 1] = sb.snowflake.preference
    /\ LastOutcome = NoChoice
    /\ sb.snowflake.confidence = 0
    /\ ~sb.snowflake.finalized

\* C11. Add is non-disruptive: Add(choice), for any choice, leaves
\* Preference(), Finalized(), the confidence, every per-choice total and
\* maxSuccessfulPolls as they were.
C11_AddNonDisruptive ==
    [][\A c \in Choices :
          CallAdd(c) =>
              /\ Preference(sb') = Preference(sb)
              /\ Finalized(sb') = Finalized(sb)
              /\ sb'.snowflake.confidence = sb.snowflake.confidence
              /\ \A d \in Choices : Total(sb', d) = Total(sb, d)
              /\ sb'.maxSuccessfulPolls = sb.maxSuccessfulPolls]_vars

\* A choice has been added to an instance with a streak and totals under way.
C11_Witness ==
    /\ sb.snowflake.known # {}
    /\ sb.snowflake.confidence >= 1
    /\ sb.maxSuccessfulPolls >= 2

\* C12. Initialize establishes the initial state whatever the state before:
\* preference c, maxSuccessfulPolls 0, every total 0, confidence 0, the
\* counter's choice c, not finalized, Preference() = c.
C12_InitializeResets ==
    [][\A betaVirtuous \in 1..MaxBeta, betaRogue \in 1..MaxBeta, c \in Choices :
          CallInitialize(betaVirtuous, betaRogue, c) =>
              /\ sb'.preference = c
              /\ sb'.maxSuccessfulPolls = 0
              /\ \A d \in Choices : Total(sb', d) = 0
              /\ sb'.snowflake.confidence = 0
              /\ sb'.snowflake.preference = c
              /\ ~Finalized(sb')
              /\ Preference(sb') = c]_vars

\* C15. RecordSuccessfulPoll on a finalized tally is a no-op: no total, nor
\* maxSuccessfulPolls, nor the tracked preference, nor any field of the
\* snowflake changes.
C15_FinalizedPollNoOp ==
    [][\A c \in Choices :
          (CallRecordSuccessfulPoll(c) /\ Finalized(sb)) => sb' = sb]_vars

\* Two successful polls for the other choice made on a finalized tally.
C15_Witness ==
    /\ Finalized(sb)
    /\ Len(history) >= 2
    /\ history[Len(history) - 1] \in Choices \ {sb.snowflake.preference}
    /\ LastOutcome \in Choices \ {sb.snowflake.preference}

\* C16. RecordUnsuccessfulPoll leaves every total, maxSuccessfulPolls and the
\* tracked preference as they were; nothing but the snowflake's confidence
\* may differ after it.
C16_MissLeavesTally ==
    [][CallRecordUnsuccessfulPoll =>
          /\ sb'.numSuccessfulPolls = sb.numSuccessfulPolls
          /\ sb'.maxSuccessfulPolls = sb.maxSuccessfulPolls
          /\ sb'.preference = sb.preference
          /\ sb' = [sb EXCEPT !.snowflake.confidence = sb'.snowflake.confidence]]_vars

\* A miss recorded while the streak's choice was not the cumulative leader.
C16_Witness ==
    /\ ~Finalized(sb)
    /\ Len(history) > 0
    /\ LastOutcome = NoChoice
    /\ sb.snowflake.preference # sb.preference
    /\ sb.maxSuccessfulPolls >= 2

\* C17. Every successful poll a tally accepts reaches the snowflake: the
\* snowflake's choice is the choice of the latest accepted successful poll, or
\* the initial choice when there has been none, also when the tracked
\* preference is another choice.
C17_PollForwarded ==
    sb.snowflake.preference = lastAccepted

\* The latest accepted poll was for a choice that is neither the initial one
\* nor the tracked preference.
C17_Witness ==
    /\ lastAccepted # args.choice
    /\ lastAccepted # sb.preference
    /\ sb.snowflake.confidence = 1

\* C18. The streak never exceeds the cumulative support: confidence is at most
\* the total of the snowflake's choice, which is at most maxSuccessfulPolls;
\* a finalized instance has maxSuccessfulPolls at least the applicable beta.
C18_StreakWithinTotals ==
    /\ sb.snowflake.confidence <= Total(sb, sb.snowflake.preference)
    /\ Total(sb, sb.snowflake.preference) <= sb.maxSuccessfulPolls
    /\ Finalized(sb) => sb.maxSuccessfulPolls >= ArgBeta

\* Finalized by a streak shorter than the total of the choice.
C18_Witness ==
    /\ Finalized(sb)
    /\ ArgBeta >= 2
    /\ sb.snowflake.confidence < Total(sb, sb.snowflake.preference)

\* C19. Finalization is attainable: once every poll is a successful poll for
\* one choice c, begun in a state not finalized, the instance is finalized with
\* Preference() = c after at most beta polls, and a caller that keeps polling
\* reaches that state.
C19_StableFinalizes ==
    /\ [](\A c \in Choices :
            (stable.choice = c /\ stable.polls >= ArgBeta) =>
                (Finalized(sb) /\ Preference(sb) = c))
    /\ \A c \in Choices :
          (stable.choice = c) ~> (Finalized(sb) /\ Preference(sb) = c)

\* Finalized on the stable choice although the other choice leads the totals
\* and held the streak when the outcome became stable.
C19_Witness ==
    /\ stable.choice \in Choices
    /\ stable.polls = ArgBeta
    /\ ArgBeta >= 2
    /\ Finalized(sb)
    /\ sb.preference # stable.choice

\* The username is in neither the users map nor the user database.
Unknown(k, username) ==
    /\ username \notin DOMAIN k.users
    /\ username \notin DOMAIN k.userDB

\* The record of a known user, the one in memory if there is one.
StoredUser(k, username) ==
    IF username \in DOMAIN k.users
    THEN k.users[username]
    ELSE k.userDB[username][3]

\* The serialized user of an ImportUser request decodes to a user that the
\* request's password does not check against.
PasswordMismatch(c) ==
    /\ c.user[1] = "cb58"
    /\ c.user[2][1] = "codec"
    /\ c.user[2][3].User.password # c.password

\* The step leaves the users map, the user database and the stored data alone.
StoreUnchanged ==
    /\ ks'.users = ks.users
    /\ ks'.userDB = ks.userDB
    /\ ks'.bcDB = ks.bcDB

\* C13. ImportUser checks the password: a call whose password does not match
\* the password of the user in the serialized blob returns an error and adds
\* no user record or data.
C13_ImportChecksPassword ==
    [][\A cl \in Clients :
          (/\ DoImportUserCheck(cl) \/ DoImportUserWrite(cl)
           /\ PasswordMismatch(clients[cl])) =>
              /\ StoreUnchanged
              /\ clients'[cl].pc = "idle" => clients'[cl].reply.err # NoError]_vars

\* C14. Password gate on reads: ExportUser and GetDatabase return an error,
\* no exported user and no database, and change nothing in the keystore,
\* when the username is unknown or the password fails CheckPassword.
C14_PasswordGate ==
    [][\A cl \in Clients :
          (/\ DoExportUser(cl) \/ DoGetDatabase(cl)
           /\ \/ Unknown(ks, clients[cl].username)
              \/ StoredUser(ks, clients[cl].username).password # clients[cl].password) =>
              /\ clients'[cl].reply.err # NoError
              /\ clients'[cl].reply.user = NoBlob
              /\ clients'[cl].reply.db = NoDB
              /\ StoreUnchanged
              /\ created' = created]_vars

\* One client was refused an export for a wrong password, the other a database
\* for an unknown username, while a user with stored data exists.
C14_Witness ==
    /\ \E cl \in Clients :
         /\ clients[cl].pc = "idle"
         /\ clients[cl].op = "ExportUser"
         /\ clients[cl].reply.err = ErrIncorrectPassword
    /\ \E cl \in Clients :
         /\ clients[cl].pc = "idle"
         /\ clients[cl].op = "GetDatabase"
         /\ clients[cl].reply.err = ErrNotFound
    /\ \E u \in DOMAIN ks.users : UserData(ks, u) # {}

\* At most one user record is ever stored for a username.
OneRecordPerUsername == \A u \in Usernames : created[u] <= 1

\* C20. Username uniqueness under concurrency: of the CreateUser and
\* ImportUser requests naming one username at most one stores a user, and a
\* request for a username that exists returns the 'user already exists' error
\* and leaves the users map, the user database and the data alone.
C20_UniqueUsername ==
    /\ []OneRecordPerUsername
    /\ [][\A cl \in Clients :
             (/\ DoCreateUserCheck(cl) \/ DoImportUserCheck(cl)
              /\ ~Unknown(ks, clients[cl].username)) =>
                 /\ clients'[cl].pc = "idle"
                 /\ clients'[cl].reply.err = ErrUserExists
                 /\ StoreUnchanged]_vars

====
